---- MODULE Spec2Model ----
(***************************************************************************)
(* Model of radio-t/ai-podcast (src/main.go): runWithDependencies, the     *)
(* pipelined local generation/playback loop (generateAndPlayLocally,       *)
(* speechGenerationWorker, processSegments, processOrderedSegment,         *)
(* playSegment) and the sequential streaming path                          *)
(* (generateAndStreamToIcecast, generateSpeechSegments); the playlist       *)
(* writers (saveToConcatFile, createConcatFile) and the write of a segment *)
(* file are also specified on their own (SpecConcat, SpecStore).  SpecLive *)
(* adds the fairness of the worker's steps, SpecTimed the passage of time. *)
(*                                                                         *)
(* Conventions.  A dialogue line's text (Message.Content) is modelled by   *)
(* a number that identifies the line; the synthesizer's audio for (text,   *)
(* voice) is the pair <<text, voice>>, Go's nil byte slice is <<>>.  A     *)
(* file path is the sequence of its characters' groups: directory prefix,  *)
(* the decimal digits produced by %03d, the extension.  Go's 0-based       *)
(* slice index i is position i+1 of the TLA+ sequence.                     *)
(***************************************************************************)
EXTENDS Integers, Sequences, FiniteSets, TLC

\* ---------------------------------------------------------------- bounds
MaxLines == 4
PoolSize == 2
MaxPathLen == 2     \* characters of a path given to the playlist writers
MaxFiles == 2       \* paths of a file list given to the playlist writers
MaxIndex == 1000    \* largest sequence index given to the segment store
MaxWrites == 3      \* writes into one scratch directory
TickSeconds == 15   \* the step by which time advances
MaxSeconds == 75    \* time followed from the start of a run

\* ------------------------------------------------------ program constants
bufferSize == 2
PadWidth == 3
speechGenerationTimeout == 30

VARIABLES
    pc,             \* position of the main goroutine
    DryRun,         \* Config.DryRun
    OutputFile,     \* Config.OutputFile # ""
    failing,        \* texts on which Synthesizer.GenerateSpeech fails
    workers,        \* number of speechGenerationWorker goroutines started
    Messages,       \* Discussion.Messages
    requestChan, resultChan, stopChan, chanCap,
    segmentBuffer, currentIndex, playedIndex, audioFiles,
    prefillI,       \* loop variable i of the pre-generation loop
    nextSegment,    \* segment taken from the buffer, awaiting playback
    procFiles, procErr,      \* what processSegments / generateSpeechSegments returned
    pathErr,        \* what generateAndPlayLocally / generateAndStreamToIcecast returned
    runErr,         \* what runWithDependencies returned
    tempDir,        \* "none" | "exists" | "removed"
    tempFiles,      \* content of tempDir: file name -> bytes
    segIdx,         \* loop variable i of generateSpeechSegments
    idle,           \* workers waiting at their select
    busy,           \* requests taken by a worker and not yet answered
    stopped,        \* workers that have returned
    \* ---- observation (history) variables, never read by the program
    issuedLog,      \* indices put on requestChan, in order
    consumedLog,    \* requests taken by a worker, in order
    emittedLog,     \* segments put on resultChan, in order
    releaseLog,     \* indices removed from segmentBuffer, in order
    writeLog,       \* file names written, in order
    playLog,        \* file names passed to AudioProcessor.Play, in order
    downstreamLog,  \* calls of Concatenate / StreamFromConcat with their file list
    closeCount,     \* number of close(stopChan) executed
    timeouts,       \* number of expired waits
    synthLog,       \* texts passed to GenerateSpeech, in order
    now,            \* seconds elapsed since the run started
    deadline,       \* time at which the timer armed by time.After fires
    waitBegan       \* (observation) time at which the current wait began

vars == << pc, DryRun, OutputFile, failing, workers, Messages,
           requestChan, resultChan, stopChan, chanCap,
           segmentBuffer, currentIndex, playedIndex, audioFiles, prefillI,
           nextSegment, procFiles, procErr, pathErr, runErr, tempDir, tempFiles,
           segIdx, idle, busy, stopped,
           issuedLog, consumedLog, emittedLog, releaseLog, writeLog, playLog,
           downstreamLog, closeCount, timeouts, synthLog,
           now, deadline, waitBegan >>

clock == << now, deadline, waitBegan >>

\* ------------------------------------------------------------- data types
\* Speakers a discussion may name; "Guest" is not among the configured hosts.
Speakers == {"Alexey", "Guest"}

\* Config.Hosts as configured in main (name, gender, voice).
ConfigHosts == << [Name |-> "Alexey", Gender |-> "male", Voice |-> "onyx"],
                 [Name |-> "Maria", Gender |-> "female", Voice |-> "nova"],
                 [Name |-> "Dmitry", Gender |-> "male", Voice |-> "echo"] >>

APIKey == "key"

\* podcast.CreateHostMap: name -> HostInfo; a later host of the same name wins.
CreateHostMap(hosts) ==
    [ n \in { hosts[k].Name : k \in DOMAIN hosts } |->
        LET last == CHOOSE k \in DOMAIN hosts :
                       /\ hosts[k].Name = n
                       /\ \A j \in DOMAIN hosts : hosts[j].Name = n => j <= k
        IN [Gender |-> hosts[last].Gender, Voice |-> hosts[last].Voice] ]

\* Go errors: kind of failure, the sequence indices its message mentions,
\* and the stage prefix runWithDependencies wrapped it with ("" if none).
Err(kind, refs) == [kind |-> kind, refs |-> refs, stage |-> ""]
NoErr == Err("nil", << >>)
Wrap(stage, e) == [e EXCEPT !.stage = stage]

\* a []string result: Go's nil slice is distinguished from a list
NilFiles == [nil |-> TRUE, paths |-> << >>]
Files(paths) == [nil |-> FALSE, paths |-> paths]

NoMsg == [Host |-> "", Content |-> 0]
NoSeg == [AudioData |-> << >>, Host |-> "", Index |-> 0, Error |-> FALSE, Msg |-> NoMsg]

N == Len(Messages)

\* ---------------------------------------------------------- pure helpers
DigitChars == << "0", "1", "2", "3", "4", "5", "6", "7", "8", "9" >>

RECURSIVE Digits(_)
\* decimal digits of n >= 0, most significant first
Digits(n) == IF n < 10 THEN << DigitChars[n + 1] >>
             ELSE Digits(n \div 10) \o << DigitChars[(n % 10) + 1] >>

RECURSIVE ZeroPad(_, _)
\* %0wd: pad on the left with zeros up to the minimum width w
ZeroPad(d, w) == IF Len(d) >= w THEN d ELSE ZeroPad(<< "0" >> \o d, w)

\* mutant: the index formatted with %d
SegmentFilename_NoPadding(index) ==
    << "podcast/segment_" >> \o Digits(index) \o << ".mp3" >>

\* mutant: the index formatted with %02d
SegmentFilename_Width2(index) ==
    << "podcast/segment_" >> \o ZeroPad(Digits(index), PadWidth - 1) \o << ".mp3" >>

\* fmt.Sprintf("%s/segment_%03d.mp3", tempDir, index)
SegmentFilename(index) ==
    << "podcast/segment_" >> \o ZeroPad(Digits(index), PadWidth) \o << ".mp3" >>

\* mutant: a failed call still returns the bytes it had
GenerateSpeech_AudioOnError(text, voice) ==
    IF text \in failing THEN [audio |-> << text, voice >>, err |-> TRUE]
    ELSE [audio |-> << text, voice >>, err |-> FALSE]

\* OpenAIService.GenerateSpeech: audio bytes and nil error, or nil bytes and an error
GenerateSpeech(text, voice) ==
    IF text \in failing THEN [audio |-> << >>, err |-> TRUE]
    ELSE [audio |-> << text, voice >>, err |-> FALSE]

\* mutant: a known host gets its gender but the default voice
createSpeechRequest_VoiceNotLookedUp(msg, index, hostMap, apiKey) ==
    LET known == msg.Host \in DOMAIN hostMap
    IN [ Msg |-> msg, Index |-> index,
         Gender |-> IF known THEN hostMap[msg.Host].Gender ELSE "female",
         Voice |-> "nova",
         Speed |-> 1, APIKey |-> apiKey ]

\* createSpeechRequest
createSpeechRequest(msg, index, hostMap, apiKey) ==
    LET known == msg.Host \in DOMAIN hostMap
    IN [ Msg |-> msg, Index |-> index,
         Gender |-> IF known THEN hostMap[msg.Host].Gender ELSE "female",
         Voice |-> IF known THEN hostMap[msg.Host].Voice ELSE "nova",
         Speed |-> 1, APIKey |-> apiKey ]

\* mutant: the request is tagged with the line's 1-based number
NextRequest_IndexFromOne ==
    createSpeechRequest(Messages[currentIndex + 1], currentIndex + 1,
                        CreateHostMap(ConfigHosts), APIKey)

\* the request the coordinator issues for the line at currentIndex
NextRequest == createSpeechRequest(Messages[currentIndex + 1], currentIndex,
                                   CreateHostMap(ConfigHosts), APIKey)

\* mutant: the head of the buffer is taken whatever its index
FoundIndex_Head(buf, idx) == IF buf # << >> THEN 1 ELSE 0

\* position in the buffer of the first segment whose Index is idx, 0 if none
FoundIndex(buf, idx) ==
    IF \E k \in DOMAIN buf : buf[k].Index = idx
    THEN CHOOSE k \in DOMAIN buf :
            /\ buf[k].Index = idx
            /\ \A j \in DOMAIN buf : buf[j].Index = idx => k <= j
    ELSE 0

\* mutant: the released segment stays in the buffer
RemoveAt_KeepsSegment(buf, k) == buf

\* append(buf[:k], buf[k+1:]...)
RemoveAt(buf, k) == SubSeq(buf, 1, k - 1) \o SubSeq(buf, k + 1, Len(buf))

\* mutant: the file is opened for appending, not truncated
WriteFile_Append(files, name, data) ==
    IF name \in DOMAIN files THEN (name :> files[name] \o data) @@ files
    ELSE (name :> data) @@ files

\* mutant: the file is created but the bytes never reach it
WriteFile_NoData(files, name, data) == (name :> << >>) @@ files

\* os.WriteFile(name, data, perm) on the directory content files: the file is
\* created, or truncated if it exists, and holds exactly data afterwards
WriteFile(files, name, data) == (name :> data) @@ files

\* ------------------------------------------------------------------ Init
InitCommon ==
    /\ pc = "fetch"
    /\ DryRun \in BOOLEAN
    /\ OutputFile \in BOOLEAN
    /\ failing = {}
    /\ Messages = << >>
    /\ requestChan = << >> /\ resultChan = << >>
    /\ stopChan = "none" /\ chanCap = 0
    /\ segmentBuffer = << >> /\ currentIndex = 0 /\ playedIndex = 0
    /\ audioFiles = << >> /\ prefillI = 0 /\ nextSegment = NoSeg
    /\ procFiles = NilFiles /\ procErr = NoErr
    /\ pathErr = NoErr /\ runErr = NoErr
    /\ tempDir = "none" /\ tempFiles = << >>
    /\ segIdx = 0
    /\ idle = 0 /\ busy = {} /\ stopped = 0
    /\ issuedLog = << >> /\ consumedLog = << >> /\ emittedLog = << >>
    /\ releaseLog = << >> /\ writeLog = << >> /\ playLog = << >>
    /\ downstreamLog = << >> /\ closeCount = 0 /\ timeouts = 0
    /\ synthLog = << >>
    /\ now = 0 /\ deadline = 0 /\ waitBegan = 0

\* the program: generateAndPlayLocally starts one speechGenerationWorker
Init == InitCommon /\ workers = 1

\* the pool variant the design allows for: several workers on the same queues
InitPool == InitCommon /\ workers = PoolSize

\* ------------------------------------------------- runWithDependencies
\* articleFetcher.Fetch(config.ArticleURL)
FetchArticle ==
    /\ pc = "fetch"
    /\ \E ok \in BOOLEAN :
         IF ok THEN pc' = "discuss" /\ runErr' = runErr
         ELSE pc' = "exit" /\ runErr' = Wrap("fetching article", Err("fetch", << >>))
    /\ UNCHANGED << DryRun, OutputFile, failing, workers, Messages,
                    requestChan, resultChan, stopChan, chanCap,
                    segmentBuffer, currentIndex, playedIndex, audioFiles, prefillI,
                    nextSegment, procFiles, procErr, pathErr, tempDir, tempFiles,
                    segIdx, idle, busy, stopped,
                    issuedLog, consumedLog, emittedLog, releaseLog, writeLog, playLog,
                    downstreamLog, closeCount, timeouts, synthLog >>
    /\ UNCHANGED clock

\* the speakers of a discussion of n lines: they take turns, either one first
Casts(n) ==
    { [k \in 1 .. n |-> IF k % 2 = 1 THEN first ELSE CHOOSE h \in Speakers : h # first]
        : first \in Speakers }

\* the discussions the language model may return: n lines, line i has text i
Discussions ==
    UNION { { [k \in 1 .. n |-> [Host |-> cast[k], Content |-> k - 1]] : cast \in Casts(n) }
              : n \in 0 .. MaxLines }

\* mutant: the output path is chosen by DryRun alone
GenerateDiscussion_OutputFileIgnored ==
    /\ pc = "discuss"
    /\ \/ /\ pc' = "exit"
          /\ runErr' = Wrap("generating discussion", Err("discussion", << >>))
          /\ UNCHANGED << Messages, failing >>
       \/ /\ \E d \in Discussions :
               /\ Messages' = d
               /\ failing' \in SUBSET { d[k].Content : k \in DOMAIN d }
          /\ pc' = IF DryRun THEN "local" ELSE "icecast"
          /\ UNCHANGED runErr
    /\ UNCHANGED << DryRun, OutputFile, workers,
                    requestChan, resultChan, stopChan, chanCap,
                    segmentBuffer, currentIndex, playedIndex, audioFiles, prefillI,
                    nextSegment, procFiles, procErr, pathErr, tempDir, tempFiles,
                    segIdx, idle, busy, stopped,
                    issuedLog, consumedLog, emittedLog, releaseLog, writeLog, playLog,
                    downstreamLog, closeCount, timeouts, synthLog >>
    /\ UNCHANGED clock

\* openAI.GenerateDiscussion, then the choice of the output path; the texts
\* the synthesizer will fail on are fixed here, with the discussion
GenerateDiscussion ==
    /\ pc = "discuss"
    /\ \/ /\ pc' = "exit"
          /\ runErr' = Wrap("generating discussion", Err("discussion", << >>))
          /\ UNCHANGED << Messages, failing >>
       \/ /\ \E d \in Discussions :
               /\ Messages' = d
               /\ failing' \in SUBSET { d[k].Content : k \in DOMAIN d }
          /\ pc' = IF DryRun \/ OutputFile THEN "local" ELSE "icecast"
          /\ UNCHANGED runErr
    /\ UNCHANGED << DryRun, OutputFile, workers,
                    requestChan, resultChan, stopChan, chanCap,
                    segmentBuffer, currentIndex, playedIndex, audioFiles, prefillI,
                    nextSegment, procFiles, procErr, pathErr, tempDir, tempFiles,
                    segIdx, idle, busy, stopped,
                    issuedLog, consumedLog, emittedLog, releaseLog, writeLog, playLog,
                    downstreamLog, closeCount, timeouts, synthLog >>
    /\ UNCHANGED clock

\* mutant: both queues are made with the capacity of the lookahead window
StartLocal_WindowSizedQueues ==
    /\ pc = "local"
    /\ \/ /\ pathErr' = Err("mkdir", << >>)
          /\ pc' = "local_ret"
          /\ UNCHANGED << tempDir, chanCap, stopChan, idle >>
       \/ /\ tempDir' = "exists"
          /\ chanCap' = bufferSize
          /\ stopChan' = "open"
          /\ idle' = workers
          /\ pc' = "prefill"
          /\ UNCHANGED pathErr
    /\ UNCHANGED << DryRun, OutputFile, failing, workers, Messages,
                    requestChan, resultChan,
                    segmentBuffer, currentIndex, playedIndex, audioFiles, prefillI,
                    nextSegment, procFiles, procErr, runErr, tempFiles,
                    segIdx, busy, stopped,
                    issuedLog, consumedLog, emittedLog, releaseLog, writeLog, playLog,
                    downstreamLog, closeCount, timeouts, synthLog >>
    /\ UNCHANGED clock

\* mutant: both queues are made with capacity 1
StartLocal_SmallQueues ==
    /\ pc = "local"
    /\ \/ /\ pathErr' = Err("mkdir", << >>)
          /\ pc' = "local_ret"
          /\ UNCHANGED << tempDir, chanCap, stopChan, idle >>
       \/ /\ tempDir' = "exists"
          /\ chanCap' = 1
          /\ stopChan' = "open"
          /\ idle' = workers
          /\ pc' = "prefill"
          /\ UNCHANGED pathErr
    /\ UNCHANGED << DryRun, OutputFile, failing, workers, Messages,
                    requestChan, resultChan,
                    segmentBuffer, currentIndex, playedIndex, audioFiles, prefillI,
                    nextSegment, procFiles, procErr, runErr, tempFiles,
                    segIdx, busy, stopped,
                    issuedLog, consumedLog, emittedLog, releaseLog, writeLog, playLog,
                    downstreamLog, closeCount, timeouts, synthLog >>
    /\ UNCHANGED clock

\* ---------------------------------------------- generateAndPlayLocally
\* os.MkdirTemp, make(chan ..., len(Messages)) x2, make(chan struct{}),
\* go speechGenerationWorker(...)
StartLocal ==
    /\ pc = "local"
    /\ \/ /\ pathErr' = Err("mkdir", << >>)
          /\ pc' = "local_ret"
          /\ UNCHANGED << tempDir, chanCap, stopChan, idle >>
       \/ /\ tempDir' = "exists"
          /\ chanCap' = Len(Messages)
          /\ stopChan' = "open"
          /\ idle' = workers
          /\ pc' = "prefill"
          /\ UNCHANGED pathErr
    /\ UNCHANGED << DryRun, OutputFile, failing, workers, Messages,
                    requestChan, resultChan,
                    segmentBuffer, currentIndex, playedIndex, audioFiles, prefillI,
                    nextSegment, procFiles, procErr, runErr, tempFiles,
                    segIdx, busy, stopped,
                    issuedLog, consumedLog, emittedLog, releaseLog, writeLog, playLog,
                    downstreamLog, closeCount, timeouts, synthLog >>
    /\ UNCHANGED clock

\* mutant: the pre-generation loop is not bounded by the window
Prefill_WholeDialogue ==
    /\ pc = "prefill"
    /\ IF currentIndex < N
       THEN /\ Len(requestChan) < chanCap       \* requestChan <- req
            /\ requestChan' = Append(requestChan, NextRequest)
            /\ issuedLog' = Append(issuedLog, currentIndex)
            /\ currentIndex' = currentIndex + 1
            /\ prefillI' = prefillI + 1
            /\ pc' = pc
       ELSE /\ pc' = "loop"
            /\ UNCHANGED << requestChan, issuedLog, currentIndex, prefillI >>
    /\ UNCHANGED << DryRun, OutputFile, failing, workers, Messages,
                    resultChan, stopChan, chanCap,
                    segmentBuffer, playedIndex, audioFiles,
                    nextSegment, procFiles, procErr, pathErr, runErr, tempDir, tempFiles,
                    segIdx, idle, busy, stopped,
                    consumedLog, emittedLog, releaseLog, writeLog, playLog,
                    downstreamLog, closeCount, timeouts, synthLog >>
    /\ UNCHANGED clock

\* mutant: the pre-generation loop issues one request more
Prefill_ExtraRequest ==
    /\ pc = "prefill"
    /\ IF prefillI < bufferSize + 1 /\ currentIndex < N
       THEN /\ Len(requestChan) < chanCap       \* requestChan <- req
            /\ requestChan' = Append(requestChan, NextRequest)
            /\ issuedLog' = Append(issuedLog, currentIndex)
            /\ currentIndex' = currentIndex + 1
            /\ prefillI' = prefillI + 1
            /\ pc' = pc
       ELSE /\ pc' = "loop"
            /\ UNCHANGED << requestChan, issuedLog, currentIndex, prefillI >>
    /\ UNCHANGED << DryRun, OutputFile, failing, workers, Messages,
                    resultChan, stopChan, chanCap,
                    segmentBuffer, playedIndex, audioFiles,
                    nextSegment, procFiles, procErr, pathErr, runErr, tempDir, tempFiles,
                    segIdx, idle, busy, stopped,
                    consumedLog, emittedLog, releaseLog, writeLog, playLog,
                    downstreamLog, closeCount, timeouts, synthLog >>
    /\ UNCHANGED clock

\* one iteration (or the exit) of
\* for i := 0; i < bufferSize && currentIndex < len(Messages); i++
Prefill ==
    /\ pc = "prefill"
    /\ IF prefillI < bufferSize /\ currentIndex < N
       THEN /\ Len(requestChan) < chanCap       \* requestChan <- req
            /\ requestChan' = Append(requestChan, NextRequest)
            /\ issuedLog' = Append(issuedLog, currentIndex)
            /\ currentIndex' = currentIndex + 1
            /\ prefillI' = prefillI + 1
            /\ pc' = pc
       ELSE /\ pc' = "loop"
            /\ UNCHANGED << requestChan, issuedLog, currentIndex, prefillI >>
    /\ UNCHANGED << DryRun, OutputFile, failing, workers, Messages,
                    resultChan, stopChan, chanCap,
                    segmentBuffer, playedIndex, audioFiles,
                    nextSegment, procFiles, procErr, pathErr, runErr, tempDir, tempFiles,
                    segIdx, idle, busy, stopped,
                    consumedLog, emittedLog, releaseLog, writeLog, playLog,
                    downstreamLog, closeCount, timeouts, synthLog >>
    /\ UNCHANGED clock

cfg == << DryRun, OutputFile, failing, workers, Messages >>
workerVars == << idle, busy, stopped >>
chans == << requestChan, resultChan, stopChan, chanCap >>
rets == << procFiles, procErr, pathErr, runErr >>
workerLogs == << consumedLog, emittedLog, synthLog >>

\* mutant: one timer is armed before the first wait and kept for the whole loop
LoopHead_TimerArmedOnce ==
    /\ pc = "loop"
    /\ IF playedIndex < N
       THEN /\ IF currentIndex < N
               THEN /\ Len(requestChan) < chanCap       \* RequestChan <- req
                    /\ requestChan' = Append(requestChan, NextRequest)
                    /\ issuedLog' = Append(issuedLog, currentIndex)
                    /\ currentIndex' = currentIndex + 1
               ELSE UNCHANGED << requestChan, issuedLog, currentIndex >>
            /\ pc' = "wait"
            /\ deadline' = IF deadline = 0 THEN now + speechGenerationTimeout ELSE deadline
            /\ waitBegan' = now
            /\ UNCHANGED << procFiles, procErr >>
       ELSE /\ procFiles' = Files(audioFiles)
            /\ procErr' = NoErr
            /\ pc' = "proc_ret"
            /\ UNCHANGED << deadline, waitBegan >>
            /\ UNCHANGED << requestChan, issuedLog, currentIndex >>
    /\ UNCHANGED << cfg, workerVars, workerLogs, resultChan, stopChan, chanCap,
                    segmentBuffer, playedIndex, audioFiles, prefillI, nextSegment,
                    pathErr, runErr, tempDir, tempFiles, segIdx,
                    releaseLog, writeLog, playLog, downstreamLog, closeCount, timeouts >>
    /\ UNCHANGED now

\* mutant: the loop stops one line short
LoopHead_OffByOne ==
    /\ pc = "loop"
    /\ IF playedIndex < N - 1
       THEN /\ IF currentIndex < N
               THEN /\ Len(requestChan) < chanCap       \* RequestChan <- req
                    /\ requestChan' = Append(requestChan, NextRequest)
                    /\ issuedLog' = Append(issuedLog, currentIndex)
                    /\ currentIndex' = currentIndex + 1
               ELSE UNCHANGED << requestChan, issuedLog, currentIndex >>
            /\ pc' = "wait"
            /\ deadline' = now + speechGenerationTimeout   \* time.After(30 * time.Second)
            /\ waitBegan' = now
            /\ UNCHANGED << procFiles, procErr >>
       ELSE /\ procFiles' = Files(audioFiles)
            /\ procErr' = NoErr
            /\ pc' = "proc_ret"
            /\ UNCHANGED << deadline, waitBegan >>
            /\ UNCHANGED << requestChan, issuedLog, currentIndex >>
    /\ UNCHANGED << cfg, workerVars, workerLogs, resultChan, stopChan, chanCap,
                    segmentBuffer, playedIndex, audioFiles, prefillI, nextSegment,
                    pathErr, runErr, tempDir, tempFiles, segIdx,
                    releaseLog, writeLog, playLog, downstreamLog, closeCount, timeouts >>
    /\ UNCHANGED now

\* ------------------------------------------------------ processSegments
\* top of  for playedIndex < len(Messages): leave the loop, or issue the next
\* request when currentIndex < len(Messages), then go and wait for a result
LoopHead ==
    /\ pc = "loop"
    /\ IF playedIndex < N
       THEN /\ IF currentIndex < N
               THEN /\ Len(requestChan) < chanCap       \* RequestChan <- req
                    /\ requestChan' = Append(requestChan, NextRequest)
                    /\ issuedLog' = Append(issuedLog, currentIndex)
                    /\ currentIndex' = currentIndex + 1
               ELSE UNCHANGED << requestChan, issuedLog, currentIndex >>
            /\ pc' = "wait"
            /\ deadline' = now + speechGenerationTimeout   \* time.After(30 * time.Second)
            /\ waitBegan' = now
            /\ UNCHANGED << procFiles, procErr >>
       ELSE /\ procFiles' = Files(audioFiles)
            /\ procErr' = NoErr
            /\ pc' = "proc_ret"
            /\ UNCHANGED << deadline, waitBegan >>
            /\ UNCHANGED << requestChan, issuedLog, currentIndex >>
    /\ UNCHANGED << cfg, workerVars, workerLogs, resultChan, stopChan, chanCap,
                    segmentBuffer, playedIndex, audioFiles, prefillI, nextSegment,
                    pathErr, runErr, tempDir, tempFiles, segIdx,
                    releaseLog, writeLog, playLog, downstreamLog, closeCount, timeouts >>
    /\ UNCHANGED now

\* the result of processOrderedSegment on the buffer b for the cursor
\* playedIndex, the file write succeeding or not
OrderedStep(b, writeOK) ==
    LET k == FoundIndex(b, playedIndex)
        seg == b[k]
        filename == SegmentFilename(playedIndex)
    IN IF k = 0
       THEN \* nothing to release: return nil, nil
            /\ segmentBuffer' = b
            /\ pc' = "loop"
            /\ UNCHANGED << nextSegment, tempFiles, releaseLog, writeLog, audioFiles,
                            playedIndex, procFiles, procErr >>
       ELSE /\ segmentBuffer' = RemoveAt(b, k)
            /\ releaseLog' = Append(releaseLog, seg.Index)
            /\ IF ~writeOK
               THEN /\ procFiles' = NilFiles
                    /\ procErr' = Err("write", << >>)
                    /\ pc' = "proc_ret"
                    /\ UNCHANGED << nextSegment, tempFiles, writeLog, audioFiles, playedIndex >>
               ELSE /\ tempFiles' = WriteFile(tempFiles, filename, seg.AudioData)
                    /\ writeLog' = Append(writeLog, filename)
                    /\ IF DryRun
                       THEN /\ nextSegment' = seg
                            /\ pc' = "play"
                            /\ UNCHANGED << audioFiles, playedIndex >>
                       ELSE /\ audioFiles' = Append(audioFiles, filename)
                            /\ playedIndex' = playedIndex + 1
                            /\ pc' = "loop"
                            /\ UNCHANGED nextSegment
                    /\ UNCHANGED << procFiles, procErr >>

\* case segment = <-ResultChan: error check, append to the buffer, then
\* processOrderedSegment up to its file write
ReceiveSegment ==
    /\ pc = "wait"
    /\ resultChan # << >>
    /\ resultChan' = Tail(resultChan)
    /\ LET segment == Head(resultChan)
       IN IF segment.Error
          THEN /\ procFiles' = NilFiles
               /\ procErr' = Err("synth", << segment.Index >>)
               /\ pc' = "proc_ret"
               /\ UNCHANGED << segmentBuffer, nextSegment, tempFiles, releaseLog, writeLog,
                               audioFiles, playedIndex >>
          ELSE \E writeOK \in BOOLEAN :
                   OrderedStep(Append(segmentBuffer, segment), writeOK)
    /\ UNCHANGED << cfg, workerVars, workerLogs, requestChan, stopChan, chanCap,
                    currentIndex, prefillI, pathErr, runErr, tempDir, segIdx,
                    issuedLog, playLog, downstreamLog, closeCount, timeouts >>
    /\ UNCHANGED clock

\* case <-time.After(30 * time.Second): no result became available in time
Timeout ==
    /\ pc = "wait"
    /\ resultChan = << >>
    /\ procFiles' = NilFiles
    /\ procErr' = Err("timeout", << >>)
    /\ timeouts' = timeouts + 1
    /\ pc' = "proc_ret"
    /\ UNCHANGED << cfg, workerVars, workerLogs, chans,
                    segmentBuffer, currentIndex, playedIndex, audioFiles, prefillI,
                    nextSegment, pathErr, runErr, tempDir, tempFiles, segIdx,
                    issuedLog, releaseLog, writeLog, playLog, downstreamLog, closeCount >>
    /\ UNCHANGED clock

\* mutant: the file of the next line to request is played
PlaySegment_WrongFile ==
    /\ pc = "play"
    /\ playLog' = Append(playLog, SegmentFilename(currentIndex))
    /\ \E playOK \in BOOLEAN :
         IF playOK
         THEN /\ audioFiles' = Append(audioFiles, SegmentFilename(playedIndex))
              /\ playedIndex' = playedIndex + 1
              /\ pc' = "loop"
              /\ UNCHANGED << procFiles, procErr >>
         ELSE /\ procFiles' = NilFiles
              /\ procErr' = Err("play", << >>)
              /\ pc' = "proc_ret"
              /\ UNCHANGED << audioFiles, playedIndex >>
    /\ UNCHANGED << cfg, workerVars, workerLogs, chans,
                    segmentBuffer, currentIndex, prefillI, nextSegment,
                    pathErr, runErr, tempDir, tempFiles, segIdx,
                    issuedLog, releaseLog, writeLog, downstreamLog, closeCount, timeouts >>
    /\ UNCHANGED clock

\* playSegment (audioProcessor.Play) and the return into processSegments
PlaySegment ==
    /\ pc = "play"
    /\ playLog' = Append(playLog, SegmentFilename(playedIndex))
    /\ \E playOK \in BOOLEAN :
         IF playOK
         THEN /\ audioFiles' = Append(audioFiles, SegmentFilename(playedIndex))
              /\ playedIndex' = playedIndex + 1
              /\ pc' = "loop"
              /\ UNCHANGED << procFiles, procErr >>
         ELSE /\ procFiles' = NilFiles
              /\ procErr' = Err("play", << >>)
              /\ pc' = "proc_ret"
              /\ UNCHANGED << audioFiles, playedIndex >>
    /\ UNCHANGED << cfg, workerVars, workerLogs, chans,
                    segmentBuffer, currentIndex, prefillI, nextSegment,
                    pathErr, runErr, tempDir, tempFiles, segIdx,
                    issuedLog, releaseLog, writeLog, downstreamLog, closeCount, timeouts >>
    /\ UNCHANGED clock

\* mutant: stopChan is closed on the success branch only
FinishLocal_NoCloseOnError ==
    /\ pc = "proc_ret"
    /\ stopChan' = IF procErr # NoErr THEN stopChan ELSE "closed"
    /\ closeCount' = IF procErr # NoErr THEN closeCount ELSE closeCount + 1
    /\ pathErr' = procErr
    /\ pc' = IF procErr # NoErr THEN "local_ret"
             ELSE IF OutputFile THEN "concat" ELSE "local_ret"
    /\ UNCHANGED << cfg, workerVars, workerLogs, requestChan, resultChan, chanCap,
                    segmentBuffer, currentIndex, playedIndex, audioFiles, prefillI,
                    nextSegment, procFiles, procErr, runErr, tempDir, tempFiles, segIdx,
                    issuedLog, releaseLog, writeLog, playLog, downstreamLog, timeouts >>
    /\ UNCHANGED clock

\* generateAndPlayLocally after processSegments returned: close(stopChan) on
\* either branch, return the error or go on to the optional Concatenate
FinishLocal ==
    /\ pc = "proc_ret"
    /\ stopChan' = "closed"
    /\ closeCount' = closeCount + 1
    /\ pathErr' = procErr
    /\ pc' = IF procErr # NoErr THEN "local_ret"
             ELSE IF OutputFile THEN "concat" ELSE "local_ret"
    /\ UNCHANGED << cfg, workerVars, workerLogs, requestChan, resultChan, chanCap,
                    segmentBuffer, currentIndex, playedIndex, audioFiles, prefillI,
                    nextSegment, procFiles, procErr, runErr, tempDir, tempFiles, segIdx,
                    issuedLog, releaseLog, writeLog, playLog, downstreamLog, timeouts >>
    /\ UNCHANGED clock

\* audioProcessor.Concatenate(audioFiles, OutputFile)
Concatenate ==
    /\ pc = "concat"
    /\ downstreamLog' = Append(downstreamLog, [op |-> "Concatenate", files |-> procFiles.paths])
    /\ \E ok \in BOOLEAN :
         pathErr' = IF ok THEN NoErr ELSE Err("concat", << >>)
    /\ pc' = "local_ret"
    /\ UNCHANGED << cfg, workerVars, workerLogs, chans,
                    segmentBuffer, currentIndex, playedIndex, audioFiles, prefillI,
                    nextSegment, procFiles, procErr, runErr, tempDir, tempFiles, segIdx,
                    issuedLog, releaseLog, writeLog, playLog, closeCount, timeouts >>
    /\ UNCHANGED clock

\* mutant: a deferred close(stopChan) runs as well at the return
ReturnLocal_ClosesAgain ==
    /\ pc = "local_ret"
    /\ IF tempDir = "exists"
       THEN tempDir' = "removed" /\ tempFiles' = << >>
       ELSE UNCHANGED << tempDir, tempFiles >>
    /\ runErr' = IF pathErr # NoErr THEN Wrap("playing podcast locally", pathErr) ELSE NoErr
    /\ pc' = "exit"
    /\ closeCount' = IF stopChan # "none" THEN closeCount + 1 ELSE closeCount
    /\ UNCHANGED << cfg, workerVars, workerLogs, chans,
                    segmentBuffer, currentIndex, playedIndex, audioFiles, prefillI,
                    nextSegment, procFiles, procErr, pathErr, segIdx,
                    issuedLog, releaseLog, writeLog, playLog, downstreamLog, timeouts >>
    /\ UNCHANGED clock

\* return of generateAndPlayLocally (deferred os.RemoveAll) into
\* runWithDependencies, which wraps a failure and returns
ReturnLocal ==
    /\ pc = "local_ret"
    /\ IF tempDir = "exists"
       THEN tempDir' = "removed" /\ tempFiles' = << >>
       ELSE UNCHANGED << tempDir, tempFiles >>
    /\ runErr' = IF pathErr # NoErr THEN Wrap("playing podcast locally", pathErr) ELSE NoErr
    /\ pc' = "exit"
    /\ UNCHANGED << cfg, workerVars, workerLogs, chans,
                    segmentBuffer, currentIndex, playedIndex, audioFiles, prefillI,
                    nextSegment, procFiles, procErr, pathErr, segIdx,
                    issuedLog, releaseLog, writeLog, playLog, downstreamLog, closeCount,
                    timeouts >>
    /\ UNCHANGED clock

coordVars == << segmentBuffer, currentIndex, playedIndex, audioFiles, prefillI, nextSegment,
                tempDir, tempFiles, segIdx >>
coordLogs == << issuedLog, releaseLog, writeLog, playLog, downstreamLog, closeCount, timeouts >>

\* ----------------------------------------------- speechGenerationWorker
\* Workers run the same code and hold no state between iterations but their
\* position, so the goroutines are kept as a count of those waiting at the
\* select, the set of requests being worked on, and a count of those returned.

\* select { case <-StopChan: return
WorkerStop ==
    /\ idle > 0
    /\ stopChan = "closed"
    /\ idle' = idle - 1
    /\ stopped' = stopped + 1
    /\ UNCHANGED << pc, cfg, chans, rets, coordVars, coordLogs, workerLogs, busy >>
    /\ UNCHANGED clock

\* mutant: the synthesizer's error is not carried into the segment
WorkerSegment_ErrorDropped(req) ==
    LET r == GenerateSpeech(req.Msg.Content, req.Voice)
    IN [ AudioData |-> r.audio, Host |-> req.Msg.Host, Index |-> req.Index,
         Error |-> FALSE, Msg |-> req.Msg ]

\* the segment the worker builds from a request and the synthesizer's answer
WorkerSegment(req) ==
    LET r == GenerateSpeech(req.Msg.Content, req.Voice)
    IN [ AudioData |-> r.audio, Host |-> req.Msg.Host, Index |-> req.Index,
         Error |-> r.err, Msg |-> req.Msg ]

\* select { case req := <-RequestChan:   (Go chooses among the ready cases)
\* and the call of openAI.GenerateSpeech(req.Msg.Content, req.Voice)
WorkerReceive ==
    /\ idle > 0
    /\ requestChan # << >>
    /\ idle' = idle - 1
    /\ busy' = busy \cup { Head(requestChan) }
    /\ requestChan' = Tail(requestChan)
    /\ consumedLog' = Append(consumedLog, Head(requestChan))
    /\ synthLog' = Append(synthLog, Head(requestChan).Msg.Content)
    /\ UNCHANGED << pc, cfg, resultChan, stopChan, chanCap, rets, coordVars, coordLogs,
                    emittedLog, stopped >>
    /\ UNCHANGED clock

\* mutant: the result queue is unbuffered, a send needs the coordinator waiting
WorkerSend_NeedsReader(req) ==
    /\ req \in busy
    /\ Len(resultChan) < chanCap
    /\ pc = "wait"
    /\ resultChan' = Append(resultChan, WorkerSegment(req))
    /\ emittedLog' = Append(emittedLog, WorkerSegment(req))
    /\ busy' = busy \ { req }
    /\ idle' = idle + 1
    /\ UNCHANGED << pc, cfg, requestChan, stopChan, chanCap, rets, coordVars, coordLogs,
                    consumedLog, synthLog, stopped >>
    /\ UNCHANGED clock

\* mutant: the worker returns after reporting a failed synthesis
WorkerSend_ExitsOnError(req) ==
    /\ req \in busy
    /\ Len(resultChan) < chanCap
    /\ resultChan' = Append(resultChan, WorkerSegment(req))
    /\ emittedLog' = Append(emittedLog, WorkerSegment(req))
    /\ busy' = busy \ { req }
    /\ IF WorkerSegment(req).Error
       THEN stopped' = stopped + 1 /\ idle' = idle
       ELSE idle' = idle + 1 /\ stopped' = stopped
    /\ UNCHANGED << pc, cfg, requestChan, stopChan, chanCap, rets, coordVars, coordLogs,
                    consumedLog, synthLog >>
    /\ UNCHANGED clock

\* GenerateSpeech returns for the request req and the worker sends:
\* ResultChan <- podcast.SpeechSegment{...}   (blocks while the queue is full),
\* then goes back to the select
WorkerSend(req) ==
    /\ req \in busy
    /\ Len(resultChan) < chanCap
    /\ resultChan' = Append(resultChan, WorkerSegment(req))
    /\ emittedLog' = Append(emittedLog, WorkerSegment(req))
    /\ busy' = busy \ { req }
    /\ idle' = idle + 1
    /\ UNCHANGED << pc, cfg, requestChan, stopChan, chanCap, rets, coordVars, coordLogs,
                    consumedLog, synthLog, stopped >>
    /\ UNCHANGED clock

\* ------------------------------------------ generateAndStreamToIcecast
\* os.MkdirTemp for the streaming path
StartIcecast ==
    /\ pc = "icecast"
    /\ \/ /\ pathErr' = Err("mkdir", << >>)
          /\ pc' = "ice_ret"
          /\ UNCHANGED tempDir
       \/ /\ tempDir' = "exists"
          /\ pc' = "ice_gen"
          /\ UNCHANGED pathErr
    /\ UNCHANGED << cfg, chans, workerVars, workerLogs, coordLogs,
                    segmentBuffer, currentIndex, playedIndex, audioFiles, prefillI,
                    nextSegment, tempFiles, segIdx, procFiles, procErr, runErr >>
    /\ UNCHANGED clock

\* voice of a message in generateSpeechSegments: the host's, default "nova"
SegmentVoice(msg, hostMap) ==
    IF msg.Host \in DOMAIN hostMap THEN hostMap[msg.Host].Voice ELSE "nova"

\* mutant: the error names the message by its 1-based number
GenerateSpeechSegments_ErrorCountsFromOne ==
    /\ pc = "ice_gen"
    /\ IF segIdx < N
       THEN LET msg == Messages[segIdx + 1]
                r == GenerateSpeech(msg.Content, SegmentVoice(msg, CreateHostMap(ConfigHosts)))
                filename == SegmentFilename(segIdx)
            IN /\ synthLog' = Append(synthLog, msg.Content)
               /\ IF r.err
                  THEN /\ procFiles' = NilFiles
                       /\ procErr' = Err("synth", << segIdx + 1 >>)
                       /\ pathErr' = Err("synth", << segIdx + 1 >>)
                       /\ pc' = "ice_ret"
                       /\ UNCHANGED << tempFiles, writeLog, audioFiles, segIdx >>
                  ELSE \E writeOK \in BOOLEAN :
                         IF writeOK
                         THEN /\ tempFiles' = WriteFile(tempFiles, filename, r.audio)
                              /\ writeLog' = Append(writeLog, filename)
                              /\ audioFiles' = Append(audioFiles, filename)
                              /\ segIdx' = segIdx + 1
                              /\ pc' = pc
                              /\ UNCHANGED << procFiles, procErr, pathErr >>
                         ELSE /\ procFiles' = NilFiles
                              /\ procErr' = Err("write", << >>)
                              /\ pathErr' = Err("write", << >>)
                              /\ pc' = "ice_ret"
                              /\ UNCHANGED << tempFiles, writeLog, audioFiles, segIdx >>
       ELSE /\ procFiles' = Files(audioFiles)
            /\ procErr' = NoErr
            /\ pc' = "ice_concatfile"
            /\ UNCHANGED << tempFiles, writeLog, audioFiles, segIdx, pathErr, synthLog >>
    /\ UNCHANGED << cfg, chans, workerVars, consumedLog, emittedLog,
                    segmentBuffer, currentIndex, playedIndex, prefillI, nextSegment,
                    tempDir, runErr,
                    issuedLog, releaseLog, playLog, downstreamLog, closeCount, timeouts >>
    /\ UNCHANGED clock

\* one iteration (or the exit) of  for i, msg := range params.Messages
\* in generateSpeechSegments, and the error check of its caller
GenerateSpeechSegments ==
    /\ pc = "ice_gen"
    /\ IF segIdx < N
       THEN LET msg == Messages[segIdx + 1]
                r == GenerateSpeech(msg.Content, SegmentVoice(msg, CreateHostMap(ConfigHosts)))
                filename == SegmentFilename(segIdx)
            IN /\ synthLog' = Append(synthLog, msg.Content)
               /\ IF r.err
                  THEN /\ procFiles' = NilFiles
                       /\ procErr' = Err("synth", << segIdx >>)
                       /\ pathErr' = Err("synth", << segIdx >>)
                       /\ pc' = "ice_ret"
                       /\ UNCHANGED << tempFiles, writeLog, audioFiles, segIdx >>
                  ELSE \E writeOK \in BOOLEAN :
                         IF writeOK
                         THEN /\ tempFiles' = WriteFile(tempFiles, filename, r.audio)
                              /\ writeLog' = Append(writeLog, filename)
                              /\ audioFiles' = Append(audioFiles, filename)
                              /\ segIdx' = segIdx + 1
                              /\ pc' = pc
                              /\ UNCHANGED << procFiles, procErr, pathErr >>
                         ELSE /\ procFiles' = NilFiles
                              /\ procErr' = Err("write", << >>)
                              /\ pathErr' = Err("write", << >>)
                              /\ pc' = "ice_ret"
                              /\ UNCHANGED << tempFiles, writeLog, audioFiles, segIdx >>
       ELSE /\ procFiles' = Files(audioFiles)
            /\ procErr' = NoErr
            /\ pc' = "ice_concatfile"
            /\ UNCHANGED << tempFiles, writeLog, audioFiles, segIdx, pathErr, synthLog >>
    /\ UNCHANGED << cfg, chans, workerVars, consumedLog, emittedLog,
                    segmentBuffer, currentIndex, playedIndex, prefillI, nextSegment,
                    tempDir, runErr,
                    issuedLog, releaseLog, playLog, downstreamLog, closeCount, timeouts >>
    /\ UNCHANGED clock

ConcatFilename == << "podcast/concat.txt" >>

\* the text saveToConcatFile writes: one line  file '<path>'  per audio file
ConcatContent(files) == [k \in DOMAIN files |-> << "file '" >> \o files[k] \o << "'" >>]

\* saveToConcatFile(tempDir, audioFiles)
SaveToConcatFile ==
    /\ pc = "ice_concatfile"
    /\ \E writeOK \in BOOLEAN :
         IF writeOK
         THEN /\ tempFiles' = WriteFile(tempFiles, ConcatFilename, ConcatContent(procFiles.paths))
              /\ pc' = "ice_stream"
              /\ UNCHANGED pathErr
         ELSE /\ pathErr' = Err("concatfile", << >>)
              /\ pc' = "ice_ret"
              /\ UNCHANGED tempFiles
    /\ UNCHANGED << cfg, chans, workerVars, workerLogs, coordLogs,
                    segmentBuffer, currentIndex, playedIndex, audioFiles, prefillI,
                    nextSegment, tempDir, segIdx, procFiles, procErr, runErr >>
    /\ UNCHANGED clock

\* audioProcessor.StreamFromConcat(concatFile, Config)
StreamFromConcat ==
    /\ pc = "ice_stream"
    /\ downstreamLog' = Append(downstreamLog,
                               [op |-> "StreamFromConcat", files |-> procFiles.paths])
    /\ \E ok \in BOOLEAN :
         pathErr' = IF ok THEN NoErr ELSE Err("stream", << >>)
    /\ pc' = "ice_ret"
    /\ UNCHANGED << cfg, chans, workerVars, workerLogs,
                    segmentBuffer, currentIndex, playedIndex, audioFiles, prefillI,
                    nextSegment, tempDir, tempFiles, segIdx, procFiles, procErr, runErr,
                    issuedLog, releaseLog, writeLog, playLog, closeCount, timeouts >>
    /\ UNCHANGED clock

\* mutant: the scratch directory is removed on the success path only
ReturnIcecast_KeepsDirOnError ==
    /\ pc = "ice_ret"
    /\ IF tempDir = "exists" /\ pathErr = NoErr
       THEN tempDir' = "removed" /\ tempFiles' = << >>
       ELSE UNCHANGED << tempDir, tempFiles >>
    /\ runErr' = IF pathErr # NoErr THEN Wrap("streaming podcast", pathErr) ELSE NoErr
    /\ pc' = "exit"
    /\ UNCHANGED << cfg, chans, workerVars, workerLogs, coordLogs,
                    segmentBuffer, currentIndex, playedIndex, audioFiles, prefillI,
                    nextSegment, segIdx, procFiles, procErr, pathErr >>
    /\ UNCHANGED clock

\* return of generateAndStreamToIcecast (deferred os.RemoveAll) into
\* runWithDependencies, which wraps a failure and returns
ReturnIcecast ==
    /\ pc = "ice_ret"
    /\ IF tempDir = "exists"
       THEN tempDir' = "removed" /\ tempFiles' = << >>
       ELSE UNCHANGED << tempDir, tempFiles >>
    /\ runErr' = IF pathErr # NoErr THEN Wrap("streaming podcast", pathErr) ELSE NoErr
    /\ pc' = "exit"
    /\ UNCHANGED << cfg, chans, workerVars, workerLogs, coordLogs,
                    segmentBuffer, currentIndex, playedIndex, audioFiles, prefillI,
                    nextSegment, segIdx, procFiles, procErr, pathErr >>
    /\ UNCHANGED clock

\* ------------------------------------------------- createConcatFile
\* strings.ReplaceAll(s, old, new) for a one-character old: every occurrence,
\* left to right, is replaced by the characters of new
RECURSIVE ReplaceAll(_, _, _)
ReplaceAll(s, old, new) ==
    IF s = << >> THEN << >>
    ELSE (IF Head(s) = old THEN new ELSE << Head(s) >>) \o ReplaceAll(Tail(s), old, new)

\* the text createConcatFile writes: one line  file '<safeFile>'  per audio
\* file, safeFile being the path with each ' replaced by '\''
CreateConcatContent(files) ==
    [k \in DOMAIN files |->
        << "file '" >> \o ReplaceAll(files[k], "'", << "'", "\\", "'", "'" >>) \o << "'" >>]

\* createConcatFile(tempDir, audioFiles), called on its own
CreateConcatFile ==
    /\ pc = "createconcat"
    /\ \E writeOK \in BOOLEAN :
         IF writeOK
         THEN /\ tempFiles' = WriteFile(tempFiles, ConcatFilename, CreateConcatContent(procFiles.paths))
              /\ UNCHANGED pathErr
         ELSE /\ pathErr' = Err("concatfile", << >>)
              /\ UNCHANGED tempFiles
    /\ pc' = "exit"
    /\ UNCHANGED << cfg, chans, workerVars, workerLogs, coordLogs,
                    segmentBuffer, currentIndex, playedIndex, audioFiles, prefillI,
                    nextSegment, tempDir, segIdx, procFiles, procErr, runErr >>
    /\ UNCHANGED clock

\* the characters a path is made of here: a letter, a space, a single quote
PathChars == {"a", " ", "'"}

Paths == UNION { [1 .. n -> PathChars] : n \in 1 .. MaxPathLen }

FileLists == UNION { [1 .. n -> Paths] : n \in 0 .. MaxFiles }

\* the playlist writers on their own: a scratch directory exists and a file
\* list is about to be given to saveToConcatFile (as generateAndStreamToIcecast
\* does) or to createConcatFile
InitConcat ==
    /\ pc \in {"ice_concatfile", "createconcat"}
    /\ procFiles \in { Files(l) : l \in FileLists }
    /\ audioFiles = procFiles.paths
    /\ tempDir = "exists" /\ tempFiles = << >>
    /\ DryRun = FALSE /\ OutputFile = FALSE
    /\ failing = {} /\ workers = 1 /\ Messages = << >>
    /\ requestChan = << >> /\ resultChan = << >>
    /\ stopChan = "none" /\ chanCap = 0
    /\ segmentBuffer = << >> /\ currentIndex = 0 /\ playedIndex = 0
    /\ prefillI = 0 /\ nextSegment = NoSeg
    /\ procErr = NoErr /\ pathErr = NoErr /\ runErr = NoErr
    /\ segIdx = 0
    /\ idle = 0 /\ busy = {} /\ stopped = 0
    /\ issuedLog = << >> /\ consumedLog = << >> /\ emittedLog = << >>
    /\ releaseLog = << >> /\ writeLog = << >> /\ playLog = << >>
    /\ downstreamLog = << >> /\ closeCount = 0 /\ timeouts = 0
    /\ synthLog = << >>
    /\ now = 0 /\ deadline = 0 /\ waitBegan = 0

NextConcat ==
    \/ SaveToConcatFile
    \/ StreamFromConcat
    \/ ReturnIcecast
    \/ CreateConcatFile

SpecConcat == InitConcat /\ [][NextConcat]_vars

\* ------------------------------------------------------ segment store
\* The write of a released segment (processOrderedSegment: Sprintf, then
\* os.WriteFile) on its own, for indices around the changes of digit count.
StoreIndices ==
    { i \in 0 .. MaxIndex : \E p \in {1, 10, 100, 1000} : i \in {p - 1, p, p + 1} }

\* the segments a worker may have produced for such an index
StoreSegments ==
    { WorkerSegment(createSpeechRequest([Host |-> h, Content |-> i], i,
                                        CreateHostMap(ConfigHosts), APIKey))
        : i \in StoreIndices, h \in Speakers }

\* a scratch directory exists and is empty, nothing has been released
InitStore ==
    /\ pc = "store"
    /\ tempDir = "exists" /\ tempFiles = << >>
    /\ DryRun = FALSE /\ OutputFile = FALSE
    /\ failing = {} /\ workers = 1 /\ Messages = << >>
    /\ requestChan = << >> /\ resultChan = << >>
    /\ stopChan = "none" /\ chanCap = 0
    /\ segmentBuffer = << >> /\ currentIndex = 0 /\ playedIndex = 0
    /\ audioFiles = << >> /\ prefillI = 0 /\ nextSegment = NoSeg
    /\ procFiles = NilFiles /\ procErr = NoErr
    /\ pathErr = NoErr /\ runErr = NoErr
    /\ segIdx = 0
    /\ idle = 0 /\ busy = {} /\ stopped = 0
    /\ issuedLog = << >> /\ consumedLog = << >> /\ emittedLog = << >>
    /\ releaseLog = << >> /\ writeLog = << >> /\ playLog = << >>
    /\ downstreamLog = << >> /\ closeCount = 0 /\ timeouts = 0
    /\ synthLog = << >>
    /\ now = 0 /\ deadline = 0 /\ waitBegan = 0

\* filename := Sprintf("%s/segment_%03d.mp3", TempDir, PlayedIndex)
\* err := os.WriteFile(filename, nextSegment.AudioData, 0o600)
\* for a segment nextSegment released at the cursor PlayedIndex
StoreSegment ==
    /\ pc = "store"
    /\ Len(writeLog) < MaxWrites
    /\ \E seg \in StoreSegments, writeOK \in BOOLEAN :
         LET filename == SegmentFilename(seg.Index)
         IN /\ nextSegment' = seg
            /\ playedIndex' = seg.Index
            /\ IF writeOK
               THEN /\ tempFiles' = WriteFile(tempFiles, filename, seg.AudioData)
                    /\ writeLog' = Append(writeLog, filename)
                    /\ releaseLog' = Append(releaseLog, seg.Index)
                    /\ UNCHANGED << pc, procErr >>
               ELSE /\ procErr' = Err("write", << >>)
                    /\ pc' = "exit"
                    /\ UNCHANGED << tempFiles, writeLog, releaseLog >>
    /\ UNCHANGED << cfg, chans, workerVars, workerLogs,
                    segmentBuffer, currentIndex, audioFiles, prefillI,
                    procFiles, pathErr, runErr, tempDir, segIdx,
                    issuedLog, playLog, downstreamLog, closeCount, timeouts >>
    /\ UNCHANGED clock

NextStore == StoreSegment

SpecStore == InitStore /\ [][NextStore]_vars

\* ------------------------------------------------------------ the system
Next ==
    \/ FetchArticle
    \/ GenerateDiscussion
    \/ StartLocal
    \/ Prefill
    \/ LoopHead
    \/ ReceiveSegment
    \/ Timeout
    \/ PlaySegment
    \/ FinishLocal
    \/ Concatenate
    \/ ReturnLocal
    \/ WorkerStop
    \/ WorkerReceive
    \/ \E req \in busy : WorkerSend(req)
    \/ StartIcecast
    \/ GenerateSpeechSegments
    \/ SaveToConcatFile
    \/ StreamFromConcat
    \/ ReturnIcecast

Spec == Init /\ [][Next]_vars

SpecPool == InitPool /\ [][Next]_vars

\* ------------------------------------------------------------- real time
\* time passes while the pipeline runs, by up to TickSeconds at once; while
\* processSegments waits, the timer fires when its deadline is reached, so time
\* does not pass beyond it before the select has been left
Tick ==
    /\ stopChan = "open"
    /\ now < MaxSeconds
    /\ pc = "wait" => now < deadline
    /\ now' = IF pc = "wait" /\ now + TickSeconds > deadline THEN deadline
              ELSE now + TickSeconds
    /\ UNCHANGED << pc, cfg, chans, workerVars, workerLogs, rets, coordVars, coordLogs,
                    deadline, waitBegan >>

\* case <-time.After(30 * time.Second) with time followed: the case is ready
\* once the timer armed at this wait has fired
TimedTimeout ==
    /\ now >= deadline
    /\ Timeout

NextTimed ==
    \/ FetchArticle
    \/ GenerateDiscussion
    \/ StartLocal
    \/ Prefill
    \/ LoopHead
    \/ ReceiveSegment
    \/ TimedTimeout
    \/ Tick
    \/ PlaySegment
    \/ FinishLocal
    \/ Concatenate
    \/ ReturnLocal
    \/ WorkerStop
    \/ WorkerReceive
    \/ \E req \in busy : WorkerSend(req)
    \/ StartIcecast
    \/ GenerateSpeechSegments
    \/ SaveToConcatFile
    \/ StreamFromConcat
    \/ ReturnIcecast

\* the program with the passage of time followed
SpecTimed == Init /\ [][NextTimed]_vars

\* the program under the scheduling Go provides: a worker that can return does
\* so, and a synthesizer call in progress returns and its result is sent when
\* the result queue has room
SpecLive ==
    /\ Init /\ [][Next]_vars
    /\ WF_vars(WorkerStop)
    /\ WF_vars(\E req \in busy : WorkerSend(req))

\* ===================================================== checked properties
\* the sequence 0, 1, ..., n-1
Ident(n) == [k \in 1 .. n |-> k - 1]

\* the name the design prescribes for the file of line i < 1000:
\* "segment_" followed by exactly three decimal digits
ExpectedPath(i) ==
    << "podcast/segment_", DigitChars[((i \div 100) % 10) + 1],
       DigitChars[((i \div 10) % 10) + 1], DigitChars[(i % 10) + 1], ".mp3" >>

ExpectedPaths(n) == [k \in 1 .. n |-> ExpectedPath(k - 1)]

\* generateAndPlayLocally got past MkdirTemp and started its worker
LocalRan == stopChan # "none"

\* processSegments has returned to generateAndPlayLocally
ProcReturned == LocalRan /\ pc \in {"proc_ret", "concat", "local_ret", "exit"}

\* a result arrived on the result queue before the results preceding it
OutOfOrderArrival == \E k \in DOMAIN emittedLog : emittedLog[k].Index # k - 1

\* C1: for every dialogue length N >= 0, when the synthesizer succeeds on every
\* line (and no wait expires and no file write or playback fails),
\* processSegments returns no error and exactly the N paths segment_000,
\* segment_001, ... in ascending index order, and the run reports success
\* unless the concatenation fails.
C1_AllSucceedYieldsOrderedPaths ==
    /\ ( ProcReturned /\ failing = {} /\ procErr.kind \notin {"timeout", "write", "play"} )
         => /\ procErr = NoErr
            /\ procFiles = Files(ExpectedPaths(N))
    /\ ( pc = "exit" /\ LocalRan /\ failing = {}
         /\ pathErr.kind \notin {"timeout", "write", "play", "concat"} )
         => runErr = NoErr

C1_Witness ==
    /\ pc = "exit" /\ LocalRan /\ runErr = NoErr
    /\ N >= 3 /\ Len(procFiles.paths) = N

\* C2: if the synthesizer fails on line k only (and no wait expires and no file
\* write or playback fails), processSegments returns an error that references
\* index k and a nil file list, and the run returns that error, wherever k lies.
C2_SingleFailureAbortsWithIndex ==
    \A k \in 0 .. N - 1 :
        ( ProcReturned /\ failing = {k} /\ procErr.kind \notin {"timeout", "write", "play"} )
          => /\ procErr = Err("synth", << k >>)
             /\ procFiles = NilFiles
             /\ pc = "exit" => ( runErr.kind = "synth" /\ runErr.refs = << k >> )

C2_Witness ==
    /\ pc = "exit" /\ LocalRan /\ N >= 3
    /\ failing = {N - 1}
    /\ runErr.kind = "synth" /\ runErr.refs = << N - 1 >>
    /\ procFiles = NilFiles

\* C3: the release cursor starts at 0, never decreases and advances by exactly
\* one, and only when the segment just released and written is the one with the
\* cursor's index; the segments removed from the buffer and the files written
\* are segment 0, 1, 2, ... in this order whatever order results arrive in; and
\* processSegments succeeds exactly when the cursor reached the dialogue length.
C3_ReleaseInIndexOrder ==
    /\ playedIndex = 0
    /\ [] ( /\ releaseLog = Ident(Len(releaseLog))
            /\ writeLog = ExpectedPaths(Len(writeLog))
            /\ ProcReturned => ( procErr = NoErr <=> playedIndex = N ) )
    /\ [][ \/ playedIndex' = playedIndex
           \/ /\ playedIndex' = playedIndex + 1
              /\ Len(releaseLog') = playedIndex'
              /\ releaseLog'[playedIndex'] = playedIndex
              /\ writeLog'[playedIndex'] = ExpectedPath(playedIndex) ]_vars

C3_Witness ==
    /\ OutOfOrderArrival
    /\ playedIndex >= 2
    /\ Len(releaseLog) = playedIndex

\* C4: in interactive (dry-run) mode the files passed to Play are segment 0, 1,
\* 2, ... in ascending order (a prefix if the run fails), each passed only after
\* it was written and one per line written, even when results arrive out of
\* order; when not in interactive mode Play is never called.
C4_PlaybackInIndexOrder ==
    /\ playLog = ExpectedPaths(Len(playLog))
    /\ Len(playLog) <= Len(writeLog)
    /\ \A k \in DOMAIN playLog : playLog[k] = writeLog[k]
    /\ ( DryRun /\ LocalRan /\ pc # "play" ) => Len(playLog) = Len(writeLog)
    /\ ( DryRun /\ ProcReturned /\ procErr = NoErr ) => Len(playLog) = N
    /\ ~DryRun => playLog = << >>

C4_Witness ==
    /\ DryRun /\ OutOfOrderArrival
    /\ Len(playLog) >= 2

\* the minimum of two numbers
Min(a, b) == IF a <= b THEN a ELSE b

\* requests issued whose segment has not yet been released from the buffer
Outstanding == Len(issuedLog) - Len(releaseLog)

C6_StopSignalledOnEveryExit ==
    /\ ( LocalRan /\ pc \in {"concat", "local_ret", "exit"} ) => stopChan = "closed"
    /\ ( LocalRan /\ pathErr # NoErr ) => stopChan = "closed"

C6_Witness ==
    /\ pc = "exit" /\ LocalRan
    /\ runErr.kind = "play"
    /\ stopChan = "closed"

\* C7 (as claimed): when the run has returned to its caller, the worker it
\* started has terminated.
C7_WorkerTerminatedAtReturn ==
    ( pc = "exit" /\ LocalRan ) => stopped = workers

\* C7 (amended): the run does not wait for its worker, which may still be
\* running when the run has returned; but stopChan is then closed and no worker
\* is or can become blocked: each is terminated, or at its select with the stop
\* case ready, or working on a request, and the result queue has room for the
\* result of every request still in hand or queued.
C7_WorkerNeverBlockedAtReturn ==
    ( pc = "exit" /\ LocalRan )
      => /\ stopChan = "closed"
         /\ idle + Cardinality(busy) + stopped = workers
         /\ Len(resultChan) + Cardinality(busy) + Len(requestChan) <= chanCap

C7_Witness ==
    /\ pc = "exit" /\ LocalRan
    /\ busy # {}
    /\ requestChan # << >>
    /\ resultChan # << >>

\* C8: Concatenate / StreamFromConcat is called, and a run that got its
\* discussion reports success, only when every one of the N lines was
\* synthesized without error, written to its file and (in dry-run mode) played;
\* after a synthesis, timeout, write or playback failure nothing is handed
\* downstream.
AllLinesDone ==
    /\ failing = {}
    /\ \A i \in 0 .. N - 1 : \E k \in DOMAIN synthLog : synthLog[k] = i
    /\ writeLog = ExpectedPaths(N)
    /\ ( DryRun /\ LocalRan ) => playLog = ExpectedPaths(N)

C8_AllOrNothing ==
    /\ \A k \in DOMAIN downstreamLog :
          /\ AllLinesDone
          /\ downstreamLog[k].files = ExpectedPaths(N)
    /\ Len(downstreamLog) <= 1
    /\ ( pc = "exit" /\ runErr = NoErr ) => AllLinesDone
    /\ pathErr.kind \in {"synth", "timeout", "write", "play"} => downstreamLog = << >>
    /\ ( pc = "exit" /\ procErr # NoErr ) => ( downstreamLog = << >> /\ runErr # NoErr )

C8_Witness ==
    /\ pc = "exit" /\ runErr = NoErr
    /\ N >= 3
    /\ Len(downstreamLog) = 1
    /\ downstreamLog[1].op = "Concatenate"

\* C9 (as claimed): when a wait expires the run returns a timeout error, the
\* stop signal has been sent by then, and from then on the worker takes no
\* request from the request queue.
C9_NoConsumptionAfterTimeout ==
    /\ [] ( ( pc = "exit" /\ procErr.kind = "timeout" )
              => ( runErr.kind = "timeout" /\ stopChan = "closed" ) )
    /\ [][ ( pc = "exit" /\ procErr.kind = "timeout" ) => consumedLog' = consumedLog ]_vars

\* C10: every request a worker consumed is either still being worked on or has
\* exactly one segment on record, which carries the request's index, speaker and
\* line, and has no error and the synthesizer's bytes if the synthesis
\* succeeded, its error set and no audio if it failed; no other segment exists.
C10_OneSegmentPerRequest ==
    /\ Len(consumedLog) = Len(emittedLog) + Cardinality(busy)
    /\ \A k \in DOMAIN consumedLog :
         LET req == consumedLog[k]
             segs == { j \in DOMAIN emittedLog : emittedLog[j].Index = req.Index }
         IN IF req \in busy THEN segs = {}
            ELSE /\ Cardinality(segs) = 1
                 /\ \A j \in segs :
                      /\ emittedLog[j].Host = req.Msg.Host
                      /\ emittedLog[j].Msg = req.Msg
                      /\ IF req.Msg.Content \in failing
                         THEN emittedLog[j].Error /\ emittedLog[j].AudioData = << >>
                         ELSE /\ ~emittedLog[j].Error
                              /\ emittedLog[j].AudioData = << req.Msg.Content, req.Voice >>
    /\ \A j \in DOMAIN emittedLog :
         \E k \in DOMAIN consumedLog : consumedLog[k].Index = emittedLog[j].Index

C10_Witness ==
    /\ Len(emittedLog) >= 3
    /\ \E j \in DOMAIN emittedLog : emittedLog[j].Error
    /\ \E j \in DOMAIN emittedLog : ~emittedLog[j].Error /\ emittedLog[j].Host = "Guest"

\* number of speechGenerationWorker goroutines started so far
WorkersStarted == idle + Cardinality(busy) + stopped

\* C11 (as claimed): on an empty dialogue generateAndPlayLocally starts no
\* worker, issues no request and never calls the synthesizer, and
\* processSegments returns an empty file list and no error.
C11_EmptyDialogueStartsNoWorker ==
    ( LocalRan /\ N = 0 )
      => /\ WorkersStarted = 0
         /\ issuedLog = << >>
         /\ synthLog = << >>
         /\ ProcReturned => ( procFiles = Files(<< >>) /\ procErr = NoErr )

\* C12 (as claimed): every fatal error processSegments returns (timeout,
\* synthesis, file write, playback) carries the index of the offending line.
C12_FatalErrorsCarryIndex ==
    ( ProcReturned /\ procErr.kind \in {"timeout", "synth", "write", "play"} )
      => /\ Len(procErr.refs) = 1
         /\ procErr.refs[1] \in 0 .. N - 1

\* positions of the main goroutine inside generateAndPlayLocally
LocalPcs == {"local", "prefill", "loop", "wait", "play", "proc_ret", "concat", "local_ret"}

\* positions of the main goroutine inside generateAndStreamToIcecast
IcecastPcs == {"icecast", "ice_gen", "ice_concatfile", "ice_stream", "ice_ret"}

\* the name runWithDependencies wraps a failure of the chosen path with
PathName == IF DryRun \/ OutputFile THEN "playing podcast locally" ELSE "streaming podcast"

\* C13: runWithDependencies enters an output path at most once, only from a
\* successful discussion generation, which itself follows a successful fetch;
\* it is the local path iff DryRun is set or OutputFile is non-empty, the
\* streaming path otherwise, and the run never crosses from one path into the
\* other; a fetch or discussion failure is returned under that stage's name
\* with nothing synthesized and no scratch directory made; a failure inside the
\* chosen path is returned wrapped with that path's name.
C13_ExactlyOneOutputPath ==
    /\ [] ( /\ pc \in LocalPcs => ( DryRun \/ OutputFile )
            /\ pc \in IcecastPcs => ~( DryRun \/ OutputFile )
            /\ pc \in {"fetch", "discuss"} => ( synthLog = << >> /\ tempDir = "none" )
            /\ ( pc = "exit" /\ runErr.kind = "fetch" )
                 => ( runErr.stage = "fetching article" /\ synthLog = << >>
                      /\ tempDir = "none" /\ Messages = << >> )
            /\ ( pc = "exit" /\ runErr.kind = "discussion" )
                 => ( runErr.stage = "generating discussion" /\ synthLog = << >>
                      /\ tempDir = "none" /\ Messages = << >> )
            /\ ( pc = "exit" /\ pathErr # NoErr ) => runErr = Wrap(PathName, pathErr)
            /\ ( pc = "exit" /\ runErr.stage = "playing podcast locally" )
                 => ( DryRun \/ OutputFile )
            /\ ( pc = "exit" /\ runErr.stage = "streaming podcast" )
                 => ( ~( DryRun \/ OutputFile ) /\ stopChan = "none" )
            /\ ( pc = "exit" /\ runErr = NoErr ) => pathErr = NoErr )
    /\ [][ /\ ( pc' \in {"local", "icecast"} /\ pc' # pc ) => pc = "discuss"
           /\ ( pc' = "discuss" /\ pc' # pc ) => pc = "fetch"
           /\ pc \in LocalPcs => pc' \in LocalPcs \cup {"exit"}
           /\ pc \in IcecastPcs => pc' \in IcecastPcs \cup {"exit"}
           /\ ( pc' = "exit" /\ pc' # pc )
                => pc \in {"fetch", "discuss", "local_ret", "ice_ret"}
           /\ pc = "exit" => pc' = "exit" ]_vars

C13_Witness ==
    /\ pc = "exit"
    /\ runErr.stage = "streaming podcast" /\ runErr.kind = "stream"
    /\ ~DryRun /\ ~OutputFile
    /\ Len(synthLog) >= 2

\* generateSpeechSegments has returned to generateAndStreamToIcecast
IceGenReturned ==
    /\ ~( DryRun \/ OutputFile )
    /\ tempDir # "none"
    /\ pc \in {"ice_concatfile", "ice_stream", "ice_ret", "exit"}

\* C14: on the streaming path the messages are synthesized one at a time in
\* index order and each audio is written to its file before the next call; if
\* no call fails (and no file write fails) generateSpeechSegments returns the N
\* paths segment_000, segment_001, ... in order and no error; otherwise it
\* returns a nil list and an error that references the first failing message i,
\* having synthesized messages 0..i and written files 0..i-1 only.
C14_SequentialGeneration ==
    ~( DryRun \/ OutputFile )
      => /\ synthLog = Ident(Len(synthLog))
         /\ writeLog = ExpectedPaths(Len(writeLog))
         /\ Len(writeLog) <= Len(synthLog) /\ Len(synthLog) <= Len(writeLog) + 1
         /\ ( IceGenReturned /\ procErr.kind # "write" )
              => IF failing = {}
                 THEN /\ procErr = NoErr
                      /\ procFiles = Files(ExpectedPaths(N))
                      /\ synthLog = Ident(N)
                      /\ writeLog = ExpectedPaths(N)
                 ELSE LET i == CHOOSE k \in failing : \A j \in failing : k <= j
                      IN /\ procErr = Err("synth", << i >>)
                         /\ procFiles = NilFiles
                         /\ synthLog = Ident(i + 1)
                         /\ writeLog = ExpectedPaths(i)

C14_Witness ==
    /\ IceGenReturned /\ pc = "exit"
    /\ N = MaxLines
    /\ failing = {1, N - 1}
    /\ procErr = Err("synth", << 1 >>)
    /\ runErr.stage = "streaming podcast"

\* the path a playlist line's quoted text stands for under the transcoder's
\* quoting rules: '\'' stands for a single quote, any other character for
\* itself; a single quote anywhere else ends the quoted text, marked "?"
RECURSIVE Unquote(_)
Unquote(s) ==
    IF s = << >> THEN << >>
    ELSE IF Len(s) >= 4 /\ SubSeq(s, 1, 4) = << "'", "\\", "'", "'" >>
         THEN << "'" >> \o Unquote(SubSeq(s, 5, Len(s)))
         ELSE IF Head(s) = "'" THEN << "?" >>
              ELSE << Head(s) >> \o Unquote(Tail(s))

\* C15 (as claimed): the playlist file written for a file list has one line
\* per file, in the list's order, of the form  file '<text>'  where <text> is
\* the path with every single quote written as '\'' (so it reads back as the
\* path), and is the path itself when the path has no single quote.
C15_PlaylistLinesEscaped ==
    ConcatFilename \in DOMAIN tempFiles
      => LET lines == tempFiles[ConcatFilename]
             files == procFiles.paths
         IN /\ Len(lines) = Len(files)
            /\ \A k \in DOMAIN files :
                 LET text == SubSeq(lines[k], 2, Len(lines[k]) - 1)
                 IN /\ Len(lines[k]) >= 2
                    /\ Head(lines[k]) = "file '"
                    /\ lines[k][Len(lines[k])] = "'"
                    /\ Unquote(text) = files[k]
                    /\ ( \A c \in DOMAIN files[k] : files[k][c] # "'" ) => text = files[k]

\* byte order of the character groups a segment filename is made of
\* ('.' < '0' < ... < '9' < 'p')
CharOrder == << ".mp3" >> \o DigitChars \o << "podcast/segment_" >>

Rank(c) == CHOOSE k \in DOMAIN CharOrder : CharOrder[k] = c

\* s sorts strictly before t in lexical (byte-wise) order
RECURSIVE LexLess(_, _)
LexLess(s, t) ==
    IF t = << >> THEN FALSE
    ELSE IF s = << >> THEN TRUE
    ELSE IF Head(s) = Head(t) THEN LexLess(Tail(s), Tail(t))
    ELSE Rank(Head(s)) < Rank(Head(t))

\* the first index that no longer fits the padding width
WidthLimit == 10 ^ PadWidth

\* C16 (as claimed): for all indices i < j the filename written for i sorts
\* lexically before the filename written for j.
C16_FilenamesSortByIndex ==
    \A a, b \in DOMAIN writeLog :
        releaseLog[a] < releaseLog[b] => LexLess(writeLog[a], writeLog[b])

\* C16 (amended): the index is padded to a minimum of three digits, not cut to
\* a fixed width: for all indices i < j below 1000 the filename written for i
\* sorts lexically before the filename written for j (and distinct indices get
\* distinct names whatever their size).
C16_FilenamesSortByIndexBelowLimit ==
    \A a, b \in DOMAIN writeLog :
        /\ ( releaseLog[a] < releaseLog[b] /\ releaseLog[b] < WidthLimit )
             => LexLess(writeLog[a], writeLog[b])
        /\ releaseLog[a] # releaseLog[b] => writeLog[a] # writeLog[b]

C16_Witness ==
    /\ pc = "store"
    /\ \E a, b \in DOMAIN writeLog :
         /\ releaseLog[a] = 9 /\ releaseLog[b] = 100
         /\ LexLess(writeLog[a], writeLog[b])
         /\ ~LexLess(writeLog[b], writeLog[a])

\* the last element of a non-empty sequence
Last(q) == q[Len(q)]

\* C18: a write of (index, bytes) into the scratch directory leaves the file
\* named for the index holding exactly the bytes and every other file as it
\* was; the name depends on the index only; and writing the same (index, bytes)
\* again right after changes nothing: same path, same content, same directory.
C18_StoreIdempotent ==
    /\ [] ( \A a, b \in DOMAIN writeLog :
               releaseLog[a] = releaseLog[b] => writeLog[a] = writeLog[b] )
    /\ [][ writeLog' # writeLog
             => LET name == Last(writeLog')
                IN /\ DOMAIN tempFiles' = DOMAIN tempFiles \cup {name}
                   /\ tempFiles'[name] = nextSegment'.AudioData
                   /\ \A f \in DOMAIN tempFiles \ {name} : tempFiles'[f] = tempFiles[f]
                   /\ ( writeLog # << >> /\ nextSegment' = nextSegment )
                        => ( name = Last(writeLog) /\ tempFiles' = tempFiles ) ]_vars

C18_Witness ==
    /\ pc = "store"
    /\ Len(writeLog) = 3
    /\ writeLog[2] = writeLog[3] /\ writeLog[1] # writeLog[2]
    /\ DOMAIN tempFiles = {writeLog[1], writeLog[2]}
    /\ tempFiles[writeLog[3]] = nextSegment.AudioData

\* gender and voice the configuration gives a speaker, the defaults for a
\* speaker it does not name
ExpectedGender(h) ==
    CASE h = "Alexey" -> "male" [] h = "Maria" -> "female" [] h = "Dmitry" -> "male"
      [] OTHER -> "female"

ExpectedVoice(h) ==
    CASE h = "Alexey" -> "onyx" [] h = "Maria" -> "nova" [] h = "Dmitry" -> "echo"
      [] OTHER -> "nova"

\* every request issued so far, in the order of issue
Issued == consumedLog \o requestChan

\* C17: the k-th request issued is the one createSpeechRequest built for the
\* message and index it was given: it carries that message, that index and the
\* configured credential unchanged, speed 1.0, and the gender and voice
\* configured for the message's host, or female / nova for an unknown host.
C17_RequestFields ==
    /\ Len(Issued) = Len(issuedLog)
    /\ \A k \in DOMAIN Issued :
         LET req == Issued[k]
             msg == Messages[issuedLog[k] + 1]
         IN /\ req.Index = issuedLog[k]
            /\ req.Msg = msg
            /\ req.APIKey = APIKey
            /\ req.Speed = 1
            /\ req.Gender = ExpectedGender(msg.Host)
            /\ req.Voice = ExpectedVoice(msg.Host)

C17_Witness ==
    /\ Len(Issued) >= 3
    /\ \E k \in DOMAIN Issued : Issued[k].Msg.Host = "Alexey" /\ Issued[k].Voice = "onyx"
    /\ \E k \in DOMAIN Issued : Issued[k].Msg.Host = "Guest" /\ Issued[k].Gender = "female"

\* C19 (as claimed): whatever order results arrive in, processSegments is never
\* waiting for a further result while the segment for the release cursor sits
\* in the buffer, nor when all N lines were synthesized successfully and all N
\* results have been delivered and taken off the result queue.
C19_AnyArrivalOrderReleasesAll ==
    /\ ~( pc = "wait" /\ FoundIndex(segmentBuffer, playedIndex) # 0 )
    /\ ~( pc = "wait" /\ failing = {} /\ Len(emittedLog) = N /\ resultChan = << >> )

\* C20: on the local path the k-th file written is the one named for the k-th
\* index released, and while the scratch directory exists it holds exactly the
\* audio synthesized for that dialogue line (the bytes of the segment a worker
\* emitted with that index), in whatever order results reached the buffer; the
\* directory holds no other file.
C20_FileBytesAreLineAudio ==
    LocalRan
      => /\ Len(writeLog) <= Len(releaseLog)
         /\ \A k \in DOMAIN writeLog :
              LET i == releaseLog[k]
                  msg == Messages[i + 1]
              IN /\ writeLog[k] = ExpectedPath(i)
                 /\ tempDir = "exists"
                      => /\ tempFiles[writeLog[k]] = << msg.Content, ExpectedVoice(msg.Host) >>
                         /\ \E j \in DOMAIN emittedLog :
                              /\ emittedLog[j].Index = i
                              /\ emittedLog[j].AudioData = tempFiles[writeLog[k]]
         /\ tempDir = "exists" => DOMAIN tempFiles = { writeLog[k] : k \in DOMAIN writeLog }

C20_Witness ==
    /\ LocalRan /\ tempDir = "exists"
    /\ OutOfOrderArrival
    /\ Len(writeLog) >= 3
    /\ \E k \in DOMAIN writeLog : tempFiles[writeLog[k]][2] = "onyx"

\* C21: the indices put on the request queue are 0, 1, 2, ... in this order,
\* one new index at a time, each request carrying the line at that position;
\* when the pre-generation loop is left exactly min(W, N) requests have been
\* issued and no result has been awaited yet; no index is issued twice or
\* skipped, and never more than N in a run.
C21_RequestsInIncreasingOrder ==
    /\ [] ( /\ issuedLog = Ident(Len(issuedLog))
            /\ Len(issuedLog) <= N
            /\ Len(Issued) = Len(issuedLog)
            /\ \A k \in DOMAIN Issued :
                 Issued[k].Index = k - 1 /\ Issued[k].Msg = Messages[k]
            /\ pc = "prefill" => ( releaseLog = << >> /\ timeouts = 0 )
            /\ pc = "wait" => Len(issuedLog) >= Min(bufferSize, N) )
    /\ [][ /\ \/ issuedLog' = issuedLog
              \/ issuedLog' = Append(issuedLog, Len(issuedLog))
           /\ ( pc = "prefill" /\ pc' = "loop" )
                => Len(issuedLog') = Min(bufferSize, N) ]_vars

C21_Witness ==
    /\ pc = "exit" /\ LocalRan /\ runErr = NoErr
    /\ N = MaxLines
    /\ issuedLog = Ident(N)

\* C22: the buffer never holds two segments of the same index nor a segment
\* whose index is below the release cursor; a segment leaves the buffer only
\* as the one whose index equals the cursor, and no index is released twice.
C22_BufferInvariant ==
    /\ [] ( /\ \A a, b \in DOMAIN segmentBuffer :
                 a # b => segmentBuffer[a].Index # segmentBuffer[b].Index
            /\ \A a \in DOMAIN segmentBuffer : segmentBuffer[a].Index >= playedIndex
            /\ \A a, b \in DOMAIN releaseLog : a # b => releaseLog[a] # releaseLog[b] )
    /\ [][ /\ releaseLog' # releaseLog
                => /\ releaseLog' = Append(releaseLog, playedIndex)
                   /\ \A a \in DOMAIN segmentBuffer' : segmentBuffer'[a].Index # playedIndex
           /\ releaseLog' = releaseLog
                => \A a \in DOMAIN segmentBuffer :
                     \E b \in DOMAIN segmentBuffer' : segmentBuffer'[b] = segmentBuffer[a] ]_vars

C22_Witness ==
    /\ Len(segmentBuffer) >= 2
    /\ Len(releaseLog) >= 1
    /\ pc = "wait"

\* C23 (as claimed): once stopChan is closed the worker takes no further
\* request from the request queue and starts no further synthesizer call.
C23_StopTakesPriority ==
    [][ stopChan = "closed"
          => ( consumedLog' = consumedLog /\ synthLog' = synthLog ) ]_vars

\* C24: once stopChan is closed the worker eventually returns, whichever way
\* the coordinator left: it is never blocked for ever at its select or on the
\* send of a result.
C24_WorkerEventuallyTerminates ==
    ( stopChan = "closed" ) ~> ( stopped = workers )

C24_Witness ==
    /\ pc = "exit" /\ procErr.kind = "timeout"
    /\ stopped = workers
    /\ Len(emittedLog) >= 2
    /\ requestChan # << >>

\* C25: close(stopChan) is executed at most once in a run, and exactly once by
\* the time generateAndPlayLocally, having made the channel, goes on to the
\* concatenation or returns; the channel is closed iff that one close ran.
C25_StopClosedExactlyOnce ==
    /\ closeCount <= 1
    /\ stopChan = "closed" <=> closeCount = 1
    /\ stopChan = "none" => closeCount = 0
    /\ ( LocalRan /\ pc \in {"concat", "local_ret", "exit"} ) => closeCount = 1

C25_Witness ==
    /\ pc = "exit" /\ LocalRan
    /\ closeCount = 1
    /\ runErr.kind = "concat"

\* the coordinator is at a send on the request queue
CoordinatorAtSend ==
    \/ pc = "prefill" /\ prefillI < bufferSize /\ currentIndex < N
    \/ pc = "loop" /\ playedIndex < N /\ currentIndex < N

\* C26: both queues have capacity N; at most N requests and at most N segments
\* are ever sent; whenever the coordinator is at a send the request queue has
\* room, and the result queue has room for the result of every request a worker
\* holds, also after the coordinator has returned.
C26_NoSendBlocks ==
    LocalRan
      => /\ chanCap = N
         /\ Len(issuedLog) <= N /\ Len(emittedLog) <= N
         /\ Len(requestChan) <= chanCap /\ Len(resultChan) <= chanCap
         /\ CoordinatorAtSend => Len(requestChan) < chanCap
         /\ Len(resultChan) + Cardinality(busy) <= chanCap

C26_Witness ==
    /\ pc = "exit" /\ LocalRan
    /\ N >= 4 /\ Len(issuedLog) = N
    /\ Len(resultChan) >= 2
    /\ busy # {}

\* C28: a worker returns only in a step taken with stopChan closed; the send of
\* a segment, with or without its error set, puts the worker back at its select
\* and ends no worker; every worker started is at its select, working on a
\* request, or returned after the stop signal.
C28_FailureNeverEndsWorker ==
    /\ [] ( /\ LocalRan => idle + Cardinality(busy) + stopped = workers
            /\ stopChan # "closed" => stopped = 0 )
    /\ [][ /\ stopped' # stopped => ( stopChan = "closed" /\ emittedLog' = emittedLog )
           /\ emittedLog' # emittedLog => ( idle' = idle + 1 /\ stopped' = stopped ) ]_vars

C28_Witness ==
    /\ stopChan = "open"
    /\ Len(emittedLog) >= 2
    /\ emittedLog[1].Error /\ emittedLog[2].Error
    /\ busy # {}

\* C29: with the one worker the program starts, results reach the coordinator
\* in index order, so every result received is the cursor's and is released at
\* once: at most W + 1 requests are issued and not yet released, and the buffer
\* holds at most one segment (none between two iterations).
C29_SingleWorkerBounds ==
    /\ [] ( /\ Outstanding <= bufferSize + 1
            /\ Len(segmentBuffer) <= 1
            /\ \A k \in DOMAIN emittedLog : emittedLog[k].Index = k - 1
            /\ pc \in {"loop", "wait"} => segmentBuffer = << >> )
    /\ [][ ( pc = "wait" /\ resultChan' # resultChan /\ Len(resultChan') < Len(resultChan) )
             => /\ Head(resultChan).Index = playedIndex
                /\ Len(Append(segmentBuffer, Head(resultChan))) <= 1 ]_vars

C29_Witness ==
    /\ pc = "wait"
    /\ Outstanding = bufferSize + 1
    /\ Len(releaseLog) >= 1

\* C30: when a run has ended, however it ended, the scratch directory it made
\* is removed with every file in it; it is removed only in the return of the
\* output path, and every call of the concatenator / streamer is made, and
\* returns, while the directory and the files handed over still exist.
C30_ScratchRemovedOnEveryExit ==
    /\ [] ( /\ pc = "exit" => ( tempDir \in {"none", "removed"} /\ tempFiles = << >> )
            /\ ( pc = "exit" /\ ( procErr # NoErr \/ Len(downstreamLog) > 0 ) )
                 => tempDir = "removed"
            /\ tempDir = "removed" => pc = "exit" )
    /\ [][ /\ tempDir' # tempDir
                => \/ tempDir = "none" /\ tempDir' = "exists"
                   \/ /\ tempDir = "exists" /\ tempDir' = "removed"
                      /\ pc \in {"local_ret", "ice_ret"} /\ pc' = "exit"
           /\ downstreamLog' # downstreamLog
                => /\ tempDir = "exists" /\ tempDir' = "exists"
                   /\ tempFiles' = tempFiles
                   /\ \A k \in DOMAIN Last(downstreamLog').files :
                        Last(downstreamLog').files[k] \in DOMAIN tempFiles ]_vars

C30_Witness ==
    /\ pc = "exit" /\ tempDir = "removed"
    /\ runErr.kind = "stream"
    /\ Len(writeLog) = MaxLines
    /\ tempFiles = << >>

\* C27: a timer of 30 s is armed anew each time processSegments starts to wait;
\* a wait expires, and the run returns the timeout error, only when the wait it
\* began with that timer has itself lasted the 30 s, whatever time the earlier
\* iterations took; at most one wait expires in a run.
C27_TimeoutIsPerWait ==
    /\ [] ( /\ pc = "wait"
                 => ( deadline = waitBegan + speechGenerationTimeout /\ now <= deadline )
            /\ procErr.kind = "timeout"
                 => ( timeouts = 1 /\ now - waitBegan >= speechGenerationTimeout )
            /\ timeouts <= 1 )
    /\ [][ /\ timeouts' # timeouts
                => /\ pc = "wait"
                   /\ now - waitBegan >= speechGenerationTimeout
                   /\ procErr'.kind = "timeout"
           /\ ( pc # "wait" /\ pc' = "wait" ) => waitBegan' = now ]_vars

C27_Witness ==
    /\ procErr.kind = "timeout"
    /\ Len(releaseLog) >= 2
    /\ waitBegan > speechGenerationTimeout
    /\ now = waitBegan + speechGenerationTimeout

====
